---- MODULE Spec2Model ----
(***************************************************************************)
(* Storage management handlers of server/handles/storage.go:               *)
(*   - path-prefix scoping of the CRUD handlers (SpecScope),               *)
(*   - the same handlers with requests in flight together (SpecRace),      *)
(*   - their path rewrites as functions of path and BasePath (SpecPath),   *)
(*   - the concurrent detail aggregator makeStorageResp (SpecAgg),         *)
(*   - the background reload of LoadAllStorages (SpecReload, and           *)
(*     SpecReloadFair with the goroutines scheduled fairly).               *)
(* Paths are sequences of one-character strings, so that HasPrefix,        *)
(* TrimPrefix, path.Join and path.Clean are computed character by          *)
(* character as the Go library computes them.                              *)
(***************************************************************************)
EXTENDS Integers, Sequences, FiniteSets, TLC

VARIABLES
    store,        \* record store: id -> model.Storage or NoRec
    last,         \* the request last handled and its response
    aggUser,      \* viewer of the aggregation (ctx user)
    aggHide,      \* setting HideStorageDetailsInManagePage
    aggStorages,  \* argument `storages` of makeStorageResp
    ret,          \* `ret` of makeStorageResp
    detailsChan,  \* buffered channel of detailWithIndex
    workerCount,  \* `workerCount` of makeStorageResp
    unit,         \* per slot: state of the goroutine dispatched for it
    aggPc,        \* position of makeStorageResp
    now,          \* wall clock, seconds
    aggStart,     \* clock when makeStorageResp was entered
    timerStart,   \* clock when the pending time.After was created
    returnedAt,   \* clock when makeStorageResp returned
    signal,       \* process-wide storages-load signal
    task,         \* per accepted reload request: its background goroutine
    pathRoot,     \* a BasePath
    pathP,        \* a mount path
    pathF,        \* the path after each rewrite to absolute and back
    pathShown,    \* the path as List and as Get show it
    inflight      \* requests between their scope check and their op call

scopeVars == <<store, last>>
aggVars == <<aggUser, aggHide, aggStorages, ret, detailsChan, workerCount,
             unit, aggPc, now, aggStart, timerStart, returnedAt>>
reloadVars == <<signal, task>>
pathVars == <<pathRoot, pathP, pathF, pathShown>>
raceVars == <<inflight>>
vars == <<scopeVars, aggVars, reloadVars, pathVars, raceVars>>

----------------------------------------------------------------------------
(* Bounds *)

MaxStorages == 2
MaxReloads == 2
MaxPathLen == 4
MaxInflight == 1

\* time.Second * 3, in seconds
Timeout == 3

----------------------------------------------------------------------------
(* Strings of the Go standard library, character by character *)

\* strings.HasPrefix(s, prefix)
HasPrefix(s, prefix) ==
    /\ Len(s) >= Len(prefix)
    /\ SubSeq(s, 1, Len(prefix)) = prefix

\* strings.TrimPrefix(s, prefix)
TrimPrefix(s, prefix) ==
    IF HasPrefix(s, prefix) THEN SubSeq(s, Len(prefix) + 1, Len(s)) ELSE s

\* length of the leading run of p that holds no '/'
RunLen(p) ==
    IF \E i \in 1..Len(p) : p[i] = "/"
    THEN (CHOOSE i \in 1..Len(p) : p[i] = "/" /\ \A j \in 1..(i - 1) : p[j] # "/") - 1
    ELSE Len(p)

\* the non-empty slash-separated elements of p, in order
RECURSIVE Segs(_)
Segs(p) ==
    IF p = <<>> THEN <<>>
    ELSE IF Head(p) = "/" THEN Segs(Tail(p))
    ELSE <<SubSeq(p, 1, RunLen(p))>> \o Segs(SubSeq(p, RunLen(p) + 1, Len(p)))

\* elements joined by single slashes
RECURSIVE JoinSegs(_)
JoinSegs(segs) ==
    IF segs = <<>> THEN <<>>
    ELSE IF Len(segs) = 1 THEN segs[1]
    ELSE segs[1] \o <<"/">> \o JoinSegs(Tail(segs))

\* path.Clean's element rules: drop ".", let ".." cancel the element before
\* it, drop ".." at the root, keep leading ".." of a relative path
RECURSIVE CleanSegs(_, _, _)
CleanSegs(segs, out, rooted) ==
    IF segs = <<>> THEN out
    ELSE LET s == Head(segs) IN
         IF s = <<".">> THEN CleanSegs(Tail(segs), out, rooted)
         ELSE IF s = <<".", ".">>
         THEN IF out # <<>> /\ out[Len(out)] # <<".", ".">>
              THEN CleanSegs(Tail(segs), SubSeq(out, 1, Len(out) - 1), rooted)
              ELSE IF rooted THEN CleanSegs(Tail(segs), out, rooted)
              ELSE CleanSegs(Tail(segs), Append(out, s), rooted)
         ELSE CleanSegs(Tail(segs), Append(out, s), rooted)

\* path.Clean(p)
Clean(p) ==
    IF p = <<>> THEN <<".">>
    ELSE LET rooted == (p[1] = "/")
             out == CleanSegs(Segs(p), <<>>, rooted)
         IN  IF rooted THEN <<"/">> \o JoinSegs(out)
             ELSE IF out = <<>> THEN <<".">>
             ELSE JoinSegs(out)

\* path.Join(a, b): empty leading elements are skipped, the rest are joined
\* with '/' and cleaned; all empty gives ""
PathJoin(a, b) ==
    IF a = <<>> /\ b = <<>> THEN <<>>
    ELSE IF a = <<>> THEN Clean(b)
    ELSE Clean(a \o <<"/">> \o b)

----------------------------------------------------------------------------
(* Data *)

Root == <<"/">>
PU1 == <<"/", "u", "1">>                               \* "/u1"
PU1D == <<"/", "u", "1", "/", "d">>                    \* "/u1/d"
PU12 == <<"/", "u", "1", "2">>                         \* "/u12"
PD == <<"/", "d">>                                     \* "/d"
PU1UpD == <<"/", "u", "1", "/", ".", ".", "/", "d">>   \* "/u1/../d"
UpD == <<".", ".", "/", "d">>                          \* "../d"

\* mount paths that requests carry
ReqPaths == {PU1, PU12, PD, PU1UpD, UpD}

\* model.User: IsAdmin() and BasePath
Admin == [present |-> TRUE, IsAdmin |-> TRUE, BasePath |-> Root]
Tenant == [present |-> TRUE, IsAdmin |-> FALSE, BasePath |-> PU1]
Users == {Admin, Tenant}
\* the mount paths a caller asks for: the administrator mounts outside the
\* tenant's subtree, the tenant tries every path
ReqPathsOf(user) == IF user.IsAdmin THEN {PD, PU12} ELSE ReqPaths
\* no conf.UserKey value in the request context
NoUser == [present |-> FALSE, IsAdmin |-> FALSE, BasePath |-> <<>>]

\* driver types: "Local" implements driver.WithDetails, "Virtual" does not
DriverTypes == {"Local", "Virtual"}
ReqDrivers == {"Local"}
WithDetails(driverType) == driverType = "Local"

IDs == 1..MaxStorages
NoRec == [absent |-> TRUE]
NoCall == [fn |-> "none"]
Nil == 0

\* the mount paths of the records of a populated store, by id
AggPaths == <<PU1D, PD, PU1, PU12, Root>>

\* model.Storage
Storage(id, mp, dr, dis) == [ID |-> id, MountPath |-> mp, Driver |-> dr, Disabled |-> dis]


----------------------------------------------------------------------------
(* The record store (package db) and the op layer, at their interface *)

\* db.GetStorageById: the record, or an error when there is none
Exists(st, id) == st[id] # NoRec

\* all records in id order, as db.GetStorages pages over them
RECURSIVE AllFrom(_, _)
AllFrom(st, id) ==
    IF id > MaxStorages THEN <<>>
    ELSE (IF Exists(st, id) THEN <<st[id]>> ELSE <<>>) \o AllFrom(st, id + 1)
AllStorages(st) == AllFrom(st, 1)

Min(a, b) == IF a < b THEN a ELSE b

\* db.GetStorages(page, perPage): one page of the records
GetStorages(st, page, perPage) ==
    SubSeq(AllStorages(st), (page - 1) * perPage + 1,
           Min(page * perPage, Len(AllStorages(st))))

FreeIds(st) == {i \in IDs : ~Exists(st, i)}
PathTaken(st, mp, except) ==
    \E i \in IDs : i # except /\ Exists(st, i) /\ st[i].MountPath = mp

\* op.CreateStorage can succeed: the store has room and the mount path is unused
CanCreate(st, req) == FreeIds(st) # {} /\ ~PathTaken(st, req.MountPath, 0)
NewId(st) == CHOOSE i \in FreeIds(st) : \A j \in FreeIds(st) : i <= j
\* op.CreateStorage: the store assigns the id and keeps the record as passed
OpCreateStorage(st, req) ==
    [st EXCEPT ![NewId(st)] = Storage(NewId(st), req.MountPath, req.Driver, FALSE)]

\* op.UpdateStorage can succeed: the record exists and the new path is unused
CanUpdate(st, req) == Exists(st, req.ID) /\ ~PathTaken(st, req.MountPath, req.ID)
\* op.UpdateStorage: the record is updated in place
OpUpdateStorage(st, req) ==
    [st EXCEPT ![req.ID] = Storage(req.ID, req.MountPath, req.Driver, @.Disabled)]

\* op.DeleteStorageById: the row is removed (and the live driver with it)
OpDeleteStorageById(st, id) == [st EXCEPT ![id] = NoRec]
\* op.DisableStorage / op.EnableStorage: the Disabled flag, hence the live driver
OpDisableStorage(st, id) == [st EXCEPT ![id].Disabled = TRUE]
OpEnableStorage(st, id) == [st EXCEPT ![id].Disabled = FALSE]

\* the live drivers: one per enabled record, registered at its MountPath
LiveIds(st) == {i \in IDs : Exists(st, i) /\ ~st[i].Disabled}
\* op.GetStorageByMountPath: the id of the live driver at mp, or Nil (error)
GetStorageByMountPath(st, mp) ==
    IF \E i \in LiveIds(st) : st[i].MountPath = mp
    THEN CHOOSE i \in LiveIds(st) : st[i].MountPath = mp
    ELSE Nil

----------------------------------------------------------------------------
(* Scoping logic of the handlers *)

\* filterStorages with the prefix test left out
filterStorages_NoFilter(user, storages) ==
    IF ~user.present THEN <<>> ELSE storages

\* filterStorages: the records of the page the caller may see
filterStorages(user, storages) ==
    IF ~user.present THEN <<>>
    ELSE IF user.IsAdmin THEN storages
    ELSE SelectSeq(storages, LAMBDA s : HasPrefix(s.MountPath, user.BasePath))

\* makeStorageResp, lines 44-49: the MountPath shown for a stored MountPath
StripBasePath(user, mp) ==
    IF user.present /\ ~user.IsAdmin /\ HasPrefix(mp, user.BasePath)
    THEN IF TrimPrefix(mp, user.BasePath) = <<>> THEN Root
         ELSE TrimPrefix(mp, user.BasePath)
    ELSE mp

\* makeStorageResp, lines 42-54: the Storage part of ret, slot by slot
RespStorages(user, storages) ==
    [i \in 1..Len(storages) |->
        [storages[i] EXCEPT !.MountPath = StripBasePath(user, storages[i].MountPath)]]

\* GetStorage, lines 274-277: the caller is denied the record
GetDenied(user, storage) ==
    ~user.IsAdmin /\ ~HasPrefix(storage.MountPath, user.BasePath)

\* GetStorage's rewrite without the empty-remainder case of lines 282-284
GetStripBasePath_NoRoot(user, mp) ==
    IF ~user.IsAdmin /\ HasPrefix(mp, user.BasePath)
    THEN TrimPrefix(mp, user.BasePath)
    ELSE mp

\* GetStorage, lines 280-285: the MountPath shown for a stored MountPath
GetStripBasePath(user, mp) ==
    IF ~user.IsAdmin /\ HasPrefix(mp, user.BasePath)
    THEN IF TrimPrefix(mp, user.BasePath) = <<>> THEN Root
         ELSE TrimPrefix(mp, user.BasePath)
    ELSE mp

\* CreateStorage, lines 136-141: req.MountPath as rewritten for the caller
CreateMountPath(user, mp) ==
    IF ~user.IsAdmin /\ ~HasPrefix(mp, user.BasePath)
    THEN PathJoin(user.BasePath, mp)
    ELSE mp

\* CreateStorage, lines 142-145: the rewritten path is refused
CreateDenied(user, mp) ==
    ~user.IsAdmin /\ ~HasPrefix(CreateMountPath(user, mp), user.BasePath)

\* UpdateStorage, lines 173-176: the caller does not own the existing record
UpdateOldDenied(user, oldS) ==
    ~user.IsAdmin /\ ~HasPrefix(oldS.MountPath, user.BasePath)

\* UpdateStorage, lines 178-181: req.MountPath as rewritten for the caller
UpdateMountPath(user, mp) ==
    IF ~user.IsAdmin /\ ~HasPrefix(mp, user.BasePath)
    THEN PathJoin(user.BasePath, mp)
    ELSE mp

\* UpdateStorage without the second prefix test of lines 182-185
UpdateNewDenied_Skipped(user, mp) == FALSE

\* UpdateStorage, lines 182-185: the rewritten path is refused
UpdateNewDenied(user, mp) ==
    ~user.IsAdmin /\ ~HasPrefix(UpdateMountPath(user, mp), user.BasePath)

\* DeleteStorage, lines 202-208: load failed or the record is out of scope
DeleteDenied(user, st, id) ==
    ~user.IsAdmin /\ (~Exists(st, id) \/ ~HasPrefix(st[id].MountPath, user.BasePath))

\* DisableStorage, lines 224-230
DisableDenied(user, st, id) ==
    ~user.IsAdmin /\ (~Exists(st, id) \/ ~HasPrefix(st[id].MountPath, user.BasePath))

\* EnableStorage, lines 246-252
EnableDenied(user, st, id) ==
    ~user.IsAdmin /\ (~Exists(st, id) \/ ~HasPrefix(st[id].MountPath, user.BasePath))

\* lines 205, 227, 249: the one message for "load failed" and "out of scope"
DeniedOrNotFound == "permission denied or storage not found"

\* the answer of the op layer: the call succeeds on an existing record, and
\* may fail on any
OpResponses(st, id) ==
    (IF Exists(st, id) THEN {[status |-> 200, msg |-> "success"]} ELSE {})
        \cup {[status |-> 500, msg |-> "op error"]}

\* DeleteStorage, lines 201-213: the responses the caller can get for id
DeleteResponses(user, st, id) ==
    IF DeleteDenied(user, st, id)
    THEN {[status |-> 403, msg |-> DeniedOrNotFound]}
    ELSE OpResponses(st, id)

\* DisableStorage, lines 223-235
DisableResponses(user, st, id) ==
    IF DisableDenied(user, st, id)
    THEN {[status |-> 403, msg |-> DeniedOrNotFound]}
    ELSE OpResponses(st, id)

\* EnableStorage, lines 245-257
EnableResponses(user, st, id) ==
    IF EnableDenied(user, st, id)
    THEN {[status |-> 403, msg |-> DeniedOrNotFound]}
    ELSE OpResponses(st, id)

----------------------------------------------------------------------------
(* The handlers, one action each *)

\* what a handled request leaves behind: the request, the HTTP status, the
\* op-layer call it made (or NoCall), the response body and, for List, the
\* page fetched from the store; old is the record the request names, as the
\* store held it when the request arrived (for OpCall: when the call was
\* made). A body or id that does not parse is answered
\* 400 before the caller is read; the store and the op layer may fail (500)
\* whenever they are called
Handled(op, user, id, old, req, status, call, resp, page) ==
    [op |-> op, user |-> user, id |-> id, old |-> old, req |-> req, status |-> status,
     call |-> call, resp |-> resp, page |-> page]

Call(fn, id, mp) == [fn |-> fn, id |-> id, MountPath |-> mp]

Idle == Handled("none", NoUser, 0, NoRec, <<>>, 0, NoCall, <<>>, <<>>)

\* ListStorages(c)
ListStorages ==
    /\ UNCHANGED <<aggVars, reloadVars, pathVars, raceVars>>
    /\ \/ /\ last' = Handled("List", NoUser, 0, NoRec, <<>>, 400, NoCall, <<>>, <<>>)
          /\ UNCHANGED store
       \/ \E user \in Users \cup {NoUser}, page \in 1..2, perPage \in {1, MaxStorages},
             dbok \in BOOLEAN :
           LET storages == GetStorages(store, page, perPage) IN
           /\ last' =
                IF ~dbok THEN Handled("List", user, 0, NoRec, <<>>, 500, NoCall, <<>>, <<>>)
                ELSE Handled("List", user, 0, NoRec, <<>>, 200, NoCall,
                             RespStorages(user, filterStorages(user, storages)), storages)
           /\ UNCHANGED store

\* CreateStorage(c)
CreateStorage ==
    /\ UNCHANGED <<aggVars, reloadVars, pathVars, raceVars>>
    /\ \/ /\ last' = Handled("Create", NoUser, 0, NoRec, <<>>, 400, NoCall, <<>>, <<>>)
          /\ UNCHANGED store
       \/ \E user \in Users, dr \in ReqDrivers : \E mp \in ReqPathsOf(user) :
           LET req == Storage(0, CreateMountPath(user, mp), dr, FALSE)
               call == Call("op.CreateStorage", 0, req.MountPath)
           IN
           IF CreateDenied(user, mp)
           THEN /\ last' = Handled("Create", user, 0, NoRec, mp, 403, NoCall, <<>>, <<>>)
                /\ UNCHANGED store
           ELSE \/ /\ CanCreate(store, req)
                   /\ store' = OpCreateStorage(store, req)
                   /\ last' = Handled("Create", user, NewId(store), NoRec, mp, 200, call, <<>>, <<>>)
                \/ /\ last' = Handled("Create", user, 0, NoRec, mp, 500, call, <<>>, <<>>)
                   /\ UNCHANGED store

\* UpdateStorage(c)
UpdateStorage ==
    /\ UNCHANGED <<aggVars, reloadVars, pathVars, raceVars>>
    /\ \/ /\ last' = Handled("Update", NoUser, 0, NoRec, <<>>, 400, NoCall, <<>>, <<>>)
          /\ UNCHANGED store
       \/ \E user \in Users, id \in IDs, dr \in ReqDrivers : \E mp \in ReqPathsOf(user) :
           LET req == Storage(id, UpdateMountPath(user, mp), dr, FALSE)
               call == Call("op.UpdateStorage", id, req.MountPath)
           IN
           IF ~user.IsAdmin /\ ~Exists(store, id)
           THEN /\ last' = Handled("Update", user, id, store[id], mp, 500, NoCall, <<>>, <<>>)
                /\ UNCHANGED store
           ELSE IF ~user.IsAdmin /\ UpdateOldDenied(user, store[id])
           THEN /\ last' = Handled("Update", user, id, store[id], mp, 403, NoCall, <<>>, <<>>)
                /\ UNCHANGED store
           ELSE IF UpdateNewDenied(user, mp)
           THEN /\ last' = Handled("Update", user, id, store[id], mp, 403, NoCall, <<>>, <<>>)
                /\ UNCHANGED store
           ELSE \/ /\ CanUpdate(store, req)
                   /\ store' = OpUpdateStorage(store, req)
                   /\ last' = Handled("Update", user, id, store[id], mp, 200, call, <<>>, <<>>)
                \/ /\ last' = Handled("Update", user, id, store[id], mp, 500, call, <<>>, <<>>)
                   /\ UNCHANGED store

\* DeleteStorage(c)
DeleteStorage ==
    /\ UNCHANGED <<aggVars, reloadVars, pathVars, raceVars>>
    /\ \/ /\ last' = Handled("Delete", NoUser, 0, NoRec, <<>>, 400, NoCall, <<>>, <<>>)
          /\ UNCHANGED store
       \/ \E user \in Users, id \in IDs :
           LET call == Call("op.DeleteStorageById", id, <<>>) IN
           IF DeleteDenied(user, store, id)
           THEN /\ last' = Handled("Delete", user, id, store[id], <<>>, 403, NoCall, <<>>, <<>>)
                /\ UNCHANGED store
           ELSE \/ /\ Exists(store, id)
                   /\ store' = OpDeleteStorageById(store, id)
                   /\ last' = Handled("Delete", user, id, store[id], <<>>, 200, call, <<>>, <<>>)
                \/ /\ last' = Handled("Delete", user, id, store[id], <<>>, 500, call, <<>>, <<>>)
                   /\ UNCHANGED store

\* DisableStorage(c)
DisableStorage ==
    /\ UNCHANGED <<aggVars, reloadVars, pathVars, raceVars>>
    /\ \/ /\ last' = Handled("Disable", NoUser, 0, NoRec, <<>>, 400, NoCall, <<>>, <<>>)
          /\ UNCHANGED store
       \/ \E user \in Users, id \in IDs :
           LET call == Call("op.DisableStorage", id, <<>>) IN
           IF DisableDenied(user, store, id)
           THEN /\ last' = Handled("Disable", user, id, store[id], <<>>, 403, NoCall, <<>>, <<>>)
                /\ UNCHANGED store
           ELSE \/ /\ Exists(store, id)
                   /\ store' = OpDisableStorage(store, id)
                   /\ last' = Handled("Disable", user, id, store[id], <<>>, 200, call, <<>>, <<>>)
                \/ /\ last' = Handled("Disable", user, id, store[id], <<>>, 500, call, <<>>, <<>>)
                   /\ UNCHANGED store

\* EnableStorage(c)
EnableStorage ==
    /\ UNCHANGED <<aggVars, reloadVars, pathVars, raceVars>>
    /\ \/ /\ last' = Handled("Enable", NoUser, 0, NoRec, <<>>, 400, NoCall, <<>>, <<>>)
          /\ UNCHANGED store
       \/ \E user \in Users, id \in IDs :
           LET call == Call("op.EnableStorage", id, <<>>) IN
           IF EnableDenied(user, store, id)
           THEN /\ last' = Handled("Enable", user, id, store[id], <<>>, 403, NoCall, <<>>, <<>>)
                /\ UNCHANGED store
           ELSE \/ /\ Exists(store, id)
                   /\ store' = OpEnableStorage(store, id)
                   /\ last' = Handled("Enable", user, id, store[id], <<>>, 200, call, <<>>, <<>>)
                \/ /\ last' = Handled("Enable", user, id, store[id], <<>>, 500, call, <<>>, <<>>)
                   /\ UNCHANGED store

\* GetStorage(c)
GetStorage ==
    /\ UNCHANGED <<aggVars, reloadVars, pathVars, raceVars>>
    /\ \/ /\ last' = Handled("Get", NoUser, 0, NoRec, <<>>, 400, NoCall, <<>>, <<>>)
          /\ UNCHANGED store
       \/ \E user \in Users, id \in IDs :
           /\ last' =
                IF ~Exists(store, id)
                THEN Handled("Get", user, id, store[id], <<>>, 500, NoCall, <<>>, <<>>)
                ELSE IF GetDenied(user, store[id])
                THEN Handled("Get", user, id, store[id], <<>>, 403, NoCall, <<>>, <<>>)
                ELSE Handled("Get", user, id, store[id], <<>>, 200, NoCall,
                             <<[store[id] EXCEPT
                                  !.MountPath = GetStripBasePath(user, store[id].MountPath)]>>,
                             <<>>)
           /\ UNCHANGED store

----------------------------------------------------------------------------
(* Specification of the CRUD handlers *)

EmptyStore == [i \in IDs |-> NoRec]

AggIdle ==
    /\ aggUser = NoUser /\ aggHide = FALSE /\ aggStorages = <<>> /\ ret = <<>>
    /\ detailsChan = <<>> /\ workerCount = 0 /\ unit = <<>> /\ aggPc = "idle"
    /\ now = 0 /\ aggStart = 0 /\ timerStart = 0 /\ returnedAt = 0

ReloadIdle ==
    /\ signal = "NotLoaded" /\ task = <<>>

PathIdle ==
    /\ pathRoot = <<>> /\ pathP = <<>> /\ pathF = <<>> /\ pathShown = <<>>

RaceIdle ==
    /\ inflight = <<>>

ScopeInit ==
    /\ store = EmptyStore
    /\ last = Idle
    /\ AggIdle
    /\ ReloadIdle
    /\ PathIdle
    /\ RaceIdle

ScopeNext ==
    \/ ListStorages
    \/ CreateStorage
    \/ UpdateStorage
    \/ DeleteStorage
    \/ DisableStorage
    \/ EnableStorage
    \/ GetStorage

SpecScope == ScopeInit /\ [][ScopeNext]_vars

----------------------------------------------------------------------------
(* DeleteStorage, DisableStorage and EnableStorage running concurrently with *)
(* other requests: the scope check and the op-layer call are two steps       *)

LifecycleOps == {"Delete", "Disable", "Enable"}

\* the scope check of the handler (lines 202-208, 224-230, 246-252)
ScopeDenied(op, user, st, id) ==
    CASE op = "Delete" -> DeleteDenied(user, st, id)
      [] op = "Disable" -> DisableDenied(user, st, id)
      [] op = "Enable" -> EnableDenied(user, st, id)

\* the op-layer call of the handler (lines 209, 231, 253)
OpCallOf(op, id) ==
    CASE op = "Delete" -> Call("op.DeleteStorageById", id, <<>>)
      [] op = "Disable" -> Call("op.DisableStorage", id, <<>>)
      [] op = "Enable" -> Call("op.EnableStorage", id, <<>>)

OpEffect(op, st, id) ==
    CASE op = "Delete" -> OpDeleteStorageById(st, id)
      [] op = "Disable" -> OpDisableStorage(st, id)
      [] op = "Enable" -> OpEnableStorage(st, id)

\* lines 201-208, 223-230, 245-252: the handler reads the caller, loads the
\* record and checks its MountPath; it answers 403 or goes on to the call
ScopeCheck ==
    /\ Len(inflight) < MaxInflight
    /\ \E op \in LifecycleOps, user \in Users, id \in IDs :
         IF ScopeDenied(op, user, store, id)
         THEN /\ last' = Handled(op, user, id, store[id], <<>>, 403, NoCall, <<>>, <<>>)
              /\ UNCHANGED inflight
         ELSE /\ inflight' = Append(inflight, [op |-> op, user |-> user, id |-> id,
                                               seen |-> store[id]])
              /\ UNCHANGED last
    /\ UNCHANGED <<store, aggVars, reloadVars, pathVars>>

\* lines 209-213, 231-235, 253-257: the op-layer call of a handler that
\* passed its check, made on the record the store holds now (old)
OpCall ==
    /\ \E k \in 1..Len(inflight) :
         LET r == inflight[k] IN
         /\ inflight' = SubSeq(inflight, 1, k - 1) \o SubSeq(inflight, k + 1, Len(inflight))
         /\ \/ /\ Exists(store, r.id)
               /\ store' = OpEffect(r.op, store, r.id)
               /\ last' = Handled(r.op, r.user, r.id, store[r.id], <<>>, 200,
                                  OpCallOf(r.op, r.id), <<>>, <<>>)
            \/ /\ last' = Handled(r.op, r.user, r.id, store[r.id], <<>>, 500,
                                  OpCallOf(r.op, r.id), <<>>, <<>>)
               /\ UNCHANGED store
    /\ UNCHANGED <<aggVars, reloadVars, pathVars>>

\* the stores the requests run over: records 1..n mounted at distinct paths,
\* enabled or not
RaceStores ==
    {[i \in IDs |-> IF i <= n THEN Storage(i, AggPaths[i], "Local", dis[i]) ELSE NoRec] :
        n \in 0..MaxStorages, dis \in [IDs -> BOOLEAN]}

RaceInit ==
    /\ store \in RaceStores
    /\ last = Idle
    /\ AggIdle
    /\ ReloadIdle
    /\ PathIdle
    /\ RaceIdle

\* other callers update records in between
RaceNext ==
    \/ UpdateStorage
    \/ ScopeCheck
    \/ OpCall

SpecRace == RaceInit /\ [][RaceNext]_vars

----------------------------------------------------------------------------
(* makeStorageResp: dispatch of the detail-fetch goroutines and collection *)

\* line 58: the driver looked up for a record, by the MountPath that the loop
\* variable s holds at that point (after lines 44-49)
ResolveDriver(user, st, s) ==
    GetStorageByMountPath(st, StripBasePath(user, s.MountPath))

\* lines 55-65: a goroutine is dispatched for the record
Dispatched(user, hide, st, s) ==
    /\ ~hide
    /\ ResolveDriver(user, st, s) # Nil
    /\ WithDetails(st[ResolveDriver(user, st, s)].Driver)

NoUnit == [st |-> "none", dri |-> Nil, fate |-> "none", val |-> Nil, inTime |-> FALSE]

Slots == 1..Len(aggStorages)

\* the collector is blocked in the select of lines 78-84 and its timer has
\* not fired
Waiting ==
    aggPc = "collect" /\ workerCount > 0 /\ now - timerStart < Timeout

\* a channel that holds one result
Cap_One(storages) == 1

\* line 35: the capacity of detailsChan
Cap(storages) == Len(storages)

\* lines 34-76: ret is built and one goroutine per eligible record is started.
\* Whether a backend ever answers is the backend's affair: fate. The field
\* writes of a slot counts the assignments of line 80 to it
Dispatch ==
    /\ aggPc = "dispatch"
    /\ ret' = [i \in Slots |->
                 [Storage |-> RespStorages(aggUser, aggStorages)[i], MountDetails |-> Nil,
                  writes |-> 0]]
    /\ \E fates \in [Slots -> {"reports", "hangs"}] :
         unit' = [i \in Slots |->
                    IF Dispatched(aggUser, aggHide, store, aggStorages[i])
                    THEN [st |-> "running",
                          dri |-> ResolveDriver(aggUser, store, aggStorages[i]),
                          fate |-> fates[i], val |-> Nil, inTime |-> FALSE]
                    ELSE NoUnit]
    /\ workerCount' =
         Cardinality({i \in Slots : Dispatched(aggUser, aggHide, store, aggStorages[i])})
    /\ timerStart' = now
    /\ aggPc' = "collect"
    /\ UNCHANGED <<scopeVars, reloadVars, pathVars, raceVars>>
    /\ UNCHANGED <<aggUser, aggHide, aggStorages, detailsChan, now, aggStart, returnedAt>>

\* lines 67-75: goroutine idx gets its answer (details, or nil with an error)
\* and sends it; the send needs room in the channel, whose capacity is
\* len(storages)
UnitReport(idx) ==
    /\ aggPc \in {"collect", "returned"}
    /\ unit[idx].st = "running"
    /\ unit[idx].fate = "reports"
    /\ Len(detailsChan) < Cap(aggStorages)
    /\ \E val \in {Nil, unit[idx].dri} :
         /\ detailsChan' = Append(detailsChan, [idx |-> idx, val |-> val])
         /\ unit' = [unit EXCEPT ![idx].st = "sent", ![idx].val = val,
                                 ![idx].inTime = Waiting]
    /\ UNCHANGED <<scopeVars, reloadVars, pathVars, raceVars>>
    /\ UNCHANGED <<aggUser, aggHide, aggStorages, ret, workerCount, aggPc, now,
                   aggStart, timerStart, returnedAt>>

\* every result is written to the first slot
TargetSlot_First(r) == 1

\* the goroutine reads the loop variable instead of its idx argument, so
\* every result names the last slot
TargetSlot_LoopVar(r) == Len(ret)

\* the slot that a received result is written to (line 80)
TargetSlot(r) == r.idx

\* lines 79-81: a result is received; the next iteration's select creates a
\* new timer
Receive ==
    /\ aggPc = "collect"
    /\ workerCount > 0
    /\ detailsChan # <<>>
    /\ ret' = [ret EXCEPT ![TargetSlot(Head(detailsChan))].MountDetails =
                              Head(detailsChan).val,
                          ![TargetSlot(Head(detailsChan))].writes = @ + 1]
    /\ detailsChan' = Tail(detailsChan)
    /\ workerCount' = workerCount - 1
    /\ timerStart' = now
    /\ UNCHANGED <<scopeVars, reloadVars, pathVars, raceVars>>
    /\ UNCHANGED <<aggUser, aggHide, aggStorages, unit, aggPc, now, aggStart,
                   returnedAt>>

\* workerCount after the timer case of the select (line 83)
AfterTimeout(n) == 0

\* lines 82-83: the timer of this iteration fired
TimerFired ==
    /\ aggPc = "collect"
    /\ workerCount > 0
    /\ now - timerStart >= Timeout
    /\ workerCount' = AfterTimeout(workerCount)
    /\ UNCHANGED <<scopeVars, reloadVars, pathVars, raceVars>>
    /\ UNCHANGED <<aggUser, aggHide, aggStorages, ret, detailsChan, unit, aggPc,
                   now, aggStart, timerStart, returnedAt>>

\* lines 77, 86: the loop condition fails and ret is returned
Return ==
    /\ aggPc = "collect"
    /\ workerCount = 0
    /\ aggPc' = "returned"
    /\ returnedAt' = now
    /\ UNCHANGED <<scopeVars, reloadVars, pathVars, raceVars>>
    /\ UNCHANGED <<aggUser, aggHide, aggStorages, ret, detailsChan, workerCount,
                   unit, now, aggStart, timerStart>>

\* a second passes while the collector is blocked in the select: nothing is
\* in the channel and the timer has not fired
Tick ==
    /\ Waiting
    /\ detailsChan = <<>>
    /\ now' = now + 1
    /\ UNCHANGED <<scopeVars, reloadVars, pathVars, raceVars>>
    /\ UNCHANGED <<aggUser, aggHide, aggStorages, ret, detailsChan, workerCount,
                   unit, aggPc, aggStart, timerStart, returnedAt>>

\* the stores the aggregation runs over: records 1..n mounted at distinct
\* paths, each with either driver type, enabled or not
AggStores ==
    {[i \in IDs |-> IF i <= n THEN Storage(i, AggPaths[i], dr[i], dis[i]) ELSE NoRec] :
        n \in 0..MaxStorages, dr \in [IDs -> DriverTypes], dis \in [IDs -> BOOLEAN]}

\* makeStorageResp is entered from ListStorages with the filtered page
AggInit ==
    /\ store \in AggStores
    /\ last = Idle
    /\ aggUser \in Users \cup {NoUser}
    /\ aggHide \in BOOLEAN
    /\ aggStorages = filterStorages(aggUser, GetStorages(store, 1, MaxStorages))
    /\ ret = <<>> /\ detailsChan = <<>> /\ workerCount = 0
    /\ unit = <<>> /\ aggPc = "dispatch"
    /\ now = 0 /\ aggStart = 0 /\ timerStart = 0 /\ returnedAt = 0
    /\ ReloadIdle
    /\ PathIdle
    /\ RaceIdle

\* some dispatched goroutine reports
UnitReports == \E idx \in Slots : UnitReport(idx)

AggNext ==
    \/ Dispatch
    \/ UnitReports
    \/ Receive
    \/ TimerFired
    \/ Return
    \/ Tick

SpecAgg == AggInit /\ [][AggNext]_vars

----------------------------------------------------------------------------
(* LoadAllStorages and its background goroutine *)

\* db.GetEnabledStorages: the enabled records
GetEnabledStorages(st) == SelectSeq(AllStorages(st), LAMBDA s : ~s.Disabled)

\* what the external calls of one loop iteration do: resolve fails, Drop
\* fails, or op.LoadStorage is reached (and succeeds or fails)
Fates == {"resolveErr", "dropErr", "loadErr", "ok"}

\* a storage of the snapshot that the loop has not come to
Pending == [tried |-> FALSE, resolved |-> FALSE, dropped |-> FALSE, loads |-> 0]

\* lines 320-333: one iteration on a storage with record a: the resolve and
\* the Drop succeed or not, and op.LoadStorage is called after both succeeded
Attempt(a, fate) ==
    [tried |-> TRUE,
     resolved |-> fate # "resolveErr",
     dropped |-> fate \in {"loadErr", "ok"},
     loads |-> IF fate \in {"loadErr", "ok"} THEN a.loads + 1 ELSE a.loads]

\* the loop with `break` in place of `continue`
NextIndex_Break(t, fate) ==
    IF fate = "ok" THEN t.i + 1 ELSE Len(t.storages) + 1

\* lines 319-336: the index the loop goes to after an iteration with this
\* fate (every failure is a `continue`)
NextIndex(t, fate) == t.i + 1

\* lines 311-317, 339: the request is accepted, the signal reset and the
\* goroutine started with the snapshot; or the read fails with 500
LoadAllStorages ==
    /\ UNCHANGED <<store, aggVars, pathVars, raceVars>>
    /\ \/ /\ last' = Handled("LoadAll", NoUser, 0, NoRec, <<>>, 500, NoCall, <<>>, <<>>)
          /\ UNCHANGED <<signal, task>>
       \/ /\ Len(task) < MaxReloads
          /\ signal' = "Loading"
          /\ task' = Append(task,
                 [storages |-> GetEnabledStorages(store), i |-> 1,
                  done |-> [k \in 1..Len(GetEnabledStorages(store)) |-> Pending],
                  pc |-> "loop"])
          /\ last' = Handled("LoadAll", NoUser, Len(task) + 1, NoRec, <<>>, 200, NoCall, <<>>, <<>>)

\* lines 319-336: one iteration of the loop of goroutine g
ReloadStep(g) ==
    /\ task[g].pc = "loop"
    /\ task[g].i <= Len(task[g].storages)
    /\ \E fate \in Fates :
         task' = [task EXCEPT ![g].done[task[g].i] = Attempt(@, fate),
                              ![g].i = NextIndex(task[g], fate)]
    /\ UNCHANGED <<store, last, signal, aggVars, pathVars, raceVars>>

\* the goroutine ending without line 337
ReloadFinish_NoSignal(g) ==
    /\ task[g].pc = "loop"
    /\ task[g].i > Len(task[g].storages)
    /\ task' = [task EXCEPT ![g].pc = "done"]
    /\ UNCHANGED <<store, last, signal, aggVars, pathVars, raceVars>>

\* line 337: the loop is over and the loaded signal is sent
ReloadFinish(g) ==
    /\ task[g].pc = "loop"
    /\ task[g].i > Len(task[g].storages)
    /\ signal' = "Loaded"
    /\ task' = [task EXCEPT ![g].pc = "done"]
    /\ UNCHANGED <<store, last, aggVars, pathVars, raceVars>>

\* the stores a reload runs over: the driver type plays no part in a reload
ReloadStores == {st \in AggStores : \A i \in IDs : Exists(st, i) => st[i].Driver = "Local"}

ReloadInit ==
    /\ store \in ReloadStores
    /\ last = Idle
    /\ AggIdle
    /\ ReloadIdle
    /\ PathIdle
    /\ RaceIdle

\* some background goroutine takes its next step
ReloadSteps == \E g \in 1..Len(task) : ReloadStep(g)
ReloadFinishes == \E g \in 1..Len(task) : ReloadFinish(g)

ReloadNext ==
    \/ LoadAllStorages
    \/ ReloadSteps
    \/ ReloadFinishes

SpecReload == ReloadInit /\ [][ReloadNext]_vars

\* goroutine g of line 318 runs: an iteration of its loop, or its line 337
ReloadRun(g) ==
    /\ g \in 1..Len(task)
    /\ \/ ReloadStep(g)
       \/ ReloadFinish(g)

\* the Go scheduler runs every started goroutine, and every Drop and
\* op.LoadStorage call returns
SpecReloadFair ==
    /\ ReloadInit
    /\ [][ReloadNext]_vars
    /\ \A g \in 1..MaxReloads : WF_vars(ReloadRun(g))

----------------------------------------------------------------------------
(* The path rewrites of the handlers as functions of path and BasePath *)

\* the characters of the paths: a separator, a name character and the dot
Alphabet == {"/", "u", "."}

\* all strings of at most n characters
RECURSIVE Strs(_)
Strs(n) ==
    IF n = 0 THEN {<<>>}
    ELSE Strs(n - 1) \cup {Append(str, ch) : str \in Strs(n - 1), ch \in Alphabet}

\* mount paths: absolute, of at most MaxPathLen characters
MountPaths == {mp \in Strs(MaxPathLen) : mp # <<>> /\ mp[1] = "/"}

\* BasePaths: the root, a directory, and a directory written with a
\* trailing slash
BasePaths == {Root, <<"/", "u">>, <<"/", "u", "/">>}

\* a non-admin caller with BasePath r
TenantAt(r) == [present |-> TRUE, IsAdmin |-> FALSE, BasePath |-> r]

\* a path made absolute as CreateStorage does (lines 136-141) and shown
\* again as GetStorage does (lines 279-285)
RoundTrip(user, mp) == GetStripBasePath(user, CreateMountPath(user, mp))

\* the rewrite is applied to the path it produced last
Rewrite ==
    /\ Len(pathF) < 2
    /\ pathF' = Append(pathF, RoundTrip(TenantAt(pathRoot),
                                        IF pathF = <<>> THEN pathP ELSE pathF[Len(pathF)]))
    /\ UNCHANGED <<pathRoot, pathP, pathShown>>
    /\ UNCHANGED <<scopeVars, aggVars, reloadVars, raceVars>>

\* a record mounted at pathP that passes the scope checks (lines 120, 274)
\* is shown by ListStorages (lines 43-49) and by GetStorage (lines 279-285)
Show ==
    /\ pathShown = <<>>
    /\ filterStorages(TenantAt(pathRoot), <<Storage(1, pathP, "Local", FALSE)>>) # <<>>
    /\ ~GetDenied(TenantAt(pathRoot), Storage(1, pathP, "Local", FALSE))
    /\ pathShown' = <<StripBasePath(TenantAt(pathRoot), pathP),
                      GetStripBasePath(TenantAt(pathRoot), pathP)>>
    /\ UNCHANGED <<pathRoot, pathP, pathF>>
    /\ UNCHANGED <<scopeVars, aggVars, reloadVars, raceVars>>

PathInit ==
    /\ pathRoot \in BasePaths
    /\ pathP \in MountPaths
    /\ pathF = <<>>
    /\ pathShown = <<>>
    /\ store = EmptyStore
    /\ last = Idle
    /\ AggIdle
    /\ ReloadIdle
    /\ RaceIdle

PathNext ==
    \/ Rewrite
    \/ Show

SpecPath == PathInit /\ [][PathNext]_vars

----------------------------------------------------------------------------
(* PathScope of the specification, section 4.1 *)

\* p equals root or extends it by whole path elements
WholeSegmentsUnder(p, root) ==
    /\ Len(Segs(p)) >= Len(Segs(root))
    /\ SubSeq(Segs(p), 1, Len(Segs(root))) = Segs(root)

\* IsUnderRoot(path, root) on normalized paths
IsUnderRoot(p, root) == WholeSegmentsUnder(Clean(p), Clean(root))

NonAdmin(user) == user.present /\ ~user.IsAdmin

----------------------------------------------------------------------------
(* Claims *)

\* C1: makeStorageResp returns no later than 3 seconds after it was entered,
\* whatever the number of goroutines and whenever (or whether) they report.
C1_ReturnsWithinBudget ==
    aggPc = "returned" => returnedAt - aggStart <= Timeout

\* C2: every MountPath that a non-admin's CreateStorage or UpdateStorage
\* passes to op.CreateStorage / op.UpdateStorage denotes, once normalized,
\* the caller's BasePath or a descendant of it.
C2_PassedPathUnderBasePath ==
    (last.op \in {"Create", "Update"} /\ NonAdmin(last.user) /\ last.call # NoCall)
        => IsUnderRoot(last.call.MountPath, last.user.BasePath)

\* C3: a scope check lets a non-admin through only for a path that equals
\* BasePath or extends it by whole path elements: the records List shows, the
\* record Get, Update, Delete, Disable or Enable acts on, and the request
\* path Create or Update passes on unchanged.
C3_ScopeByWholeSegments ==
    NonAdmin(last.user) =>
        /\ (last.op = "List" /\ last.status = 200) =>
               \A j \in 1..Len(last.resp) :
                   WholeSegmentsUnder(store[last.resp[j].ID].MountPath, last.user.BasePath)
        /\ (last.op = "Get" /\ last.status = 200) =>
               WholeSegmentsUnder(last.old.MountPath, last.user.BasePath)
        /\ (last.op \in {"Update", "Delete", "Disable", "Enable"} /\ last.call # NoCall) =>
               WholeSegmentsUnder(last.old.MountPath, last.user.BasePath)
        /\ (last.op \in {"Create", "Update"} /\ last.call # NoCall
               /\ last.call.MountPath = last.req) =>
               WholeSegmentsUnder(last.req, last.user.BasePath)

\* C4: for a non-admin, ListStorages returns exactly the records of the
\* fetched page whose stored MountPath starts with BasePath, in page order;
\* an admin gets the fetched page as it is.
C4_ListFiltersByPrefix ==
    (last.op = "List" /\ last.status = 200 /\ last.user.present) =>
        IF last.user.IsAdmin THEN last.resp = last.page
        ELSE /\ \A i \in 1..Len(last.page) :
                    HasPrefix(last.page[i].MountPath, last.user.BasePath)
                        <=> \E j \in 1..Len(last.resp) : last.resp[j].ID = last.page[i].ID
             /\ \A j \in 1..Len(last.resp) :
                    \E i \in 1..Len(last.page) : last.page[i].ID = last.resp[j].ID
             /\ \A j, k \in 1..Len(last.resp) :
                    j < k => \E i, l \in 1..Len(last.page) :
                                /\ i < l
                                /\ last.page[i].ID = last.resp[j].ID
                                /\ last.page[l].ID = last.resp[k].ID

\* C4 witness: a tenant's List of a page of two records shows one of them
C4_Witness ==
    /\ last.op = "List" /\ last.status = 200 /\ NonAdmin(last.user)
    /\ Len(last.page) = 2 /\ Len(last.resp) = 1

\* C5: a non-admin's Get, Update, Delete, Disable or Enable of an existing
\* record whose stored MountPath is not under BasePath is answered 403 and
\* makes no op-layer call.
C5_OutOfScopeDenied ==
    (/\ NonAdmin(last.user)
     /\ last.op \in {"Get", "Update", "Delete", "Disable", "Enable"}
     /\ last.old # NoRec
     /\ ~IsUnderRoot(last.old.MountPath, last.user.BasePath))
        => (last.status = 403 /\ last.call = NoCall)

\* C6 as claimed: a non-admin's Update of a record they own with a requested
\* MountPath outside BasePath is answered 403 and op.UpdateStorage is not
\* called.
C6_MoveOutsideRejected ==
    (/\ last.op = "Update" /\ NonAdmin(last.user)
     /\ last.old # NoRec
     /\ IsUnderRoot(last.old.MountPath, last.user.BasePath)
     /\ ~IsUnderRoot(last.req, last.user.BasePath))
        => (last.status = 403 /\ last.call = NoCall)

\* C6 as amended: a non-admin's Update of a record whose stored MountPath
\* starts with BasePath, with a requested MountPath that does not start with
\* BasePath, is answered 403 without a call of op.UpdateStorage exactly when
\* the join of BasePath and the requested path does not start with BasePath
\* either; otherwise op.UpdateStorage is called with the joined path.
C6_MoveRejectedIffJoinEscapes ==
    (/\ last.op = "Update" /\ NonAdmin(last.user)
     /\ last.old # NoRec
     /\ HasPrefix(last.old.MountPath, last.user.BasePath)
     /\ ~HasPrefix(last.req, last.user.BasePath))
        => IF HasPrefix(PathJoin(last.user.BasePath, last.req), last.user.BasePath)
           THEN /\ last.status \in {200, 500}
                /\ last.call = Call("op.UpdateStorage", last.id,
                                    PathJoin(last.user.BasePath, last.req))
           ELSE last.status = 403 /\ last.call = NoCall

\* C6 witness: a tenant's Update of an owned record to "../d" is refused
C6_Witness ==
    /\ last.op = "Update" /\ NonAdmin(last.user)
    /\ last.old # NoRec /\ HasPrefix(last.old.MountPath, last.user.BasePath)
    /\ last.req = UpD /\ last.status = 403 /\ last.call = NoCall

\* C7: a non-admin's Create whose request MountPath is not under BasePath
\* stores the record at the join of BasePath and the request path; a request
\* path under BasePath is stored unchanged; an admin's path is stored
\* unchanged.
C7_CreateStoresJoin ==
    (last.op = "Create" /\ last.user.present /\ last.call # NoCall) =>
        LET expected ==
                IF last.user.IsAdmin \/ IsUnderRoot(last.req, last.user.BasePath)
                THEN last.req
                ELSE PathJoin(last.user.BasePath, last.req)
        IN  /\ last.call.MountPath = expected
            /\ last.status = 200 => store[last.id].MountPath = expected

\* C8: for a non-admin, the MountPath of a record in a List or Get response
\* is the stored MountPath without its BasePath prefix, "/" when nothing
\* remains; Get rewrites as List does; the stored record is as it was.
C8_ResponsePathRelative ==
    /\ (last.op \in {"List", "Get"} /\ last.status = 200 /\ NonAdmin(last.user)) =>
          \A j \in 1..Len(last.resp) :
              LET stored == store[last.resp[j].ID].MountPath
                  shown == last.resp[j].MountPath
              IN  /\ \/ last.user.BasePath \o shown = stored
                     \/ stored = last.user.BasePath /\ shown = Root
                  /\ shown # <<>>
                  /\ last.op = "Get" => store[last.resp[j].ID] = last.old
                  /\ last.op = "List" =>
                        \E i \in 1..Len(last.page) : last.page[i] = store[last.resp[j].ID]
    /\ \A i \in IDs : \A user \in Users :
          (Exists(store, i) /\ HasPrefix(store[i].MountPath, user.BasePath)) =>
              GetStripBasePath(user, store[i].MountPath)
                  = StripBasePath(user, store[i].MountPath)

\* C8 witness: a tenant's Get of the record mounted at BasePath shows "/"
C8_Witness ==
    /\ last.op = "Get" /\ last.status = 200 /\ NonAdmin(last.user)
    /\ last.old.MountPath = last.user.BasePath
    /\ last.resp[1].MountPath = Root

\* the goroutines dispatched (K), those that never report (M), and the slots
\* that carry details
Eligible == {i \in Slots : unit[i].st # "none"}
NeverReport == {i \in Eligible : unit[i].fate = "hangs"}
WithDetailsSlots == {i \in Slots : ret[i].MountDetails # Nil}

\* C9 as claimed: when makeStorageResp has returned and each of the K-M
\* goroutines that report has reported non-nil details, exactly their K-M
\* slots carry details and the other N-K+M slots are nil.
C9_ExactlyReportersCarryDetails ==
    (/\ aggPc = "returned"
     /\ \A i \in Eligible \ NeverReport : unit[i].st = "sent" /\ unit[i].val # Nil)
        => WithDetailsSlots = Eligible \ NeverReport

\* C9 as amended: when makeStorageResp returns, a slot carries details only
\* if its own goroutine reported them, every goroutine that reported while
\* the collector was still waiting (its 3-second wait, restarted by each
\* received report, not yet over) has its report in its slot, and every
\* other slot is nil; so at most K-M slots carry details, and exactly K-M
\* when every report came in time.
C9_ReceivedReportsCarryDetails ==
    aggPc = "returned" =>
        /\ \A i \in Slots :
              /\ (unit[i].st = "sent" /\ unit[i].inTime) => ret[i].MountDetails = unit[i].val
              /\ ret[i].MountDetails # Nil =>
                    (unit[i].st = "sent" /\ ret[i].MountDetails = unit[i].val)
        /\ Cardinality(WithDetailsSlots) <= Cardinality(Eligible \ NeverReport)
        /\ (\A i \in Eligible \ NeverReport :
                unit[i].st = "sent" /\ unit[i].inTime /\ unit[i].val # Nil)
              => WithDetailsSlots = Eligible \ NeverReport

\* C9 witness: the collector returned with the details of a goroutine that
\* reported in time and without those of one that reported too late
C9_Witness ==
    /\ aggPc = "returned"
    /\ \E i, j \in Slots :
          /\ unit[i].st = "sent" /\ unit[i].inTime /\ ret[i].MountDetails # Nil
          /\ unit[j].st = "sent" /\ ~unit[j].inTime /\ unit[j].val # Nil
          /\ ret[j].MountDetails = Nil

\* C10: in a finished reload, every storage of the snapshot was attempted,
\* and op.LoadStorage was called exactly once for each storage whose resolve
\* and Drop succeeded (and not at all for the others), whatever failed for
\* the other storages.
C10_FailureDoesNotAbortReload ==
    \A g \in 1..Len(task) :
        task[g].pc = "done" =>
            \A k \in 1..Len(task[g].storages) :
                /\ task[g].done[k].tried
                /\ (task[g].done[k].resolved /\ task[g].done[k].dropped)
                      => task[g].done[k].loads = 1
                /\ ~(task[g].done[k].resolved /\ task[g].done[k].dropped)
                      => task[g].done[k].loads = 0

\* C10 witness: a finished reload in which the Drop of one storage failed
\* and a later storage was re-initialised
C10_Witness ==
    \E g \in 1..Len(task) :
        /\ task[g].pc = "done"
        /\ \E k, l \in 1..Len(task[g].storages) :
              /\ k < l
              /\ task[g].done[k].resolved /\ ~task[g].done[k].dropped
              /\ task[g].done[l].loads = 1

\* a reload whose snapshot has a storage the loop has not come to
Unattempted(g) == \E k \in 1..Len(task[g].storages) : ~task[g].done[k].tried

\* C11: the signal is reset to Loading in the step that accepts a reload
\* request, before the response; it is left as it is when the read of the
\* enabled storages fails; and whenever it enters Loaded, every storage of
\* the snapshot of every accepted request has been attempted.
C11_LoadingThenLoadedAfterSnapshot ==
    [][/\ Len(task') > Len(task) => signal' = "Loading"
       /\ (last' # last /\ last'.op = "LoadAll" /\ last'.status = 500) => signal' = signal
       /\ (signal' = "Loaded" /\ signal # "Loaded") =>
              \A g \in 1..Len(task') : ~Unattempted(g)']_vars

\* C12: under fair scheduling of the background goroutines, each accepted
\* reload request leads to a state in which its goroutine is over and the
\* signal reads Loaded, whatever resolve, Drop or re-init failed.
C12_EventuallyLoaded ==
    \A g \in 1..MaxReloads :
        (Len(task) >= g /\ task[g].pc = "loop")
            ~> (Len(task) >= g /\ task[g].pc = "done" /\ signal = "Loaded")

\* C12 witness: a reload all of whose storages failed has sent the loaded
\* signal
C12_Witness ==
    /\ signal = "Loaded"
    /\ \E g \in 1..Len(task) :
          /\ task[g].pc = "done"
          /\ Len(task[g].storages) = MaxStorages
          /\ \A k \in 1..Len(task[g].storages) :
                task[g].done[k].tried /\ task[g].done[k].loads = 0

\* C18: the signal reads Loaded only while no accepted reload has storages
\* of its snapshot left to attempt.
C18_LoadedOnlyWhenNoReloadRuns ==
    signal = "Loaded" => \A g \in 1..Len(task) : ~Unattempted(g)

\* the store without the records that lie outside the caller's BasePath
InScopePart(user, st) ==
    [i \in IDs |-> IF Exists(st, i) /\ IsUnderRoot(st[i].MountPath, user.BasePath)
                   THEN st[i] ELSE NoRec]

\* C13: for a non-admin, the responses of Delete, Disable and Enable to any
\* id are the same in the store as in the store without the records outside
\* BasePath: the id of a record outside BasePath is answered as an id that
\* does not load, 403 with the combined message.
C13_NoExistenceLeak ==
    \A user \in Users : \A id \in IDs :
        NonAdmin(user) =>
            /\ DeleteResponses(user, store, id)
                  = DeleteResponses(user, InScopePart(user, store), id)
            /\ DisableResponses(user, store, id)
                  = DisableResponses(user, InScopePart(user, store), id)
            /\ EnableResponses(user, store, id)
                  = EnableResponses(user, InScopePart(user, store), id)

\* C14: for a path under the root, rewriting it to absolute and back a
\* second time gives what the first rewrite gave.
C14_RoundTripIdempotent ==
    (Len(pathF) = 2 /\ IsUnderRoot(pathP, pathRoot)) => pathF[2] = pathF[1]

\* C20: the MountPath that List and Get show to a non-admin for a record in
\* the caller's scope begins with "/", whatever the BasePath.
C20_ShownPathAbsolute ==
    (pathShown # <<>> /\ IsUnderRoot(pathP, pathRoot)) =>
        /\ pathShown[1][1] = "/"
        /\ pathShown[2][1] = "/"

\* the live driver registered at the stored MountPath of record i
DriverOfRecord(i) == GetStorageByMountPath(store, aggStorages[i].MountPath)

\* C15: once the goroutines are dispatched, slot i has a goroutine exactly
\* when the live driver at record i's stored MountPath supports details,
\* that goroutine holds this driver, and details in slot i are its details,
\* for every viewer.
C15_DriverOfStoredPath ==
    (aggPc \in {"collect", "returned"} /\ ~aggHide) =>
        \A i \in Slots :
            /\ IF DriverOfRecord(i) # Nil /\ WithDetails(store[DriverOfRecord(i)].Driver)
               THEN unit[i].st # "none" /\ unit[i].dri = DriverOfRecord(i)
               ELSE unit[i].st = "none"
            /\ ret[i].MountDetails # Nil => ret[i].MountDetails = DriverOfRecord(i)

\* C16: the goroutines that have not sent yet always fit into the free room
\* of the channel, so a goroutine whose backend call returns can always
\* send, before and after makeStorageResp returned.
C16_SendNeverBlocks ==
    aggPc \in {"collect", "returned"} =>
        /\ Cardinality(Eligible) <= Cap(aggStorages)
        /\ Len(detailsChan) + Cardinality({i \in Slots : unit[i].st = "running"})
              <= Cap(aggStorages)
        /\ \A i \in Slots :
              (unit[i].st = "running" /\ unit[i].fate = "reports") => ENABLED UnitReport(i)

\* C16 witness: every record had a goroutine, all of them sent after
\* makeStorageResp returned, and the channel is full
C16_Witness ==
    /\ aggPc = "returned"
    /\ Len(aggStorages) = MaxStorages
    /\ Len(detailsChan) = Cap(aggStorages)
    /\ \A i \in Slots : unit[i].st = "sent" /\ ~unit[i].inTime

\* the collector has left the loop of lines 77-85, or is about to
StoppedCollecting ==
    aggPc = "returned" \/ (aggPc = "collect" /\ workerCount = 0)

\* C17: a slot is assigned at most once, and then with what its own
\* goroutine reported; a slot never assigned is nil; once the collector has
\* stopped collecting, ret does not change any more.
C17_SlotWrittenOnceByOwnUnit ==
    /\ [](aggPc \in {"collect", "returned"} =>
            \A i \in Slots :
                /\ ret[i].writes <= 1
                /\ ret[i].writes = 1 =>
                      (unit[i].st = "sent" /\ ret[i].MountDetails = unit[i].val)
                /\ ret[i].writes = 0 => ret[i].MountDetails = Nil)
    /\ [][StoppedCollecting => ret' = ret]_vars

\* C17 witness: makeStorageResp returned with one slot assigned once, while
\* the result of another goroutine lies in the channel and its slot is nil
C17_Witness ==
    /\ aggPc = "returned"
    /\ \E i, j \in Slots :
          /\ ret[i].writes = 1 /\ ret[i].MountDetails # Nil
          /\ ret[j].writes = 0 /\ ret[j].MountDetails = Nil
          /\ \E m \in 1..Len(detailsChan) :
                detailsChan[m].idx = j /\ detailsChan[m].val # Nil

\* C19: a non-admin's Delete, Disable or Enable that is applied, is applied
\* to a record that the store holds at that moment with a MountPath that
\* passes the caller's scope check, whatever other requests ran between the
\* check and the call.
C19_AppliedToRecordInScope ==
    (/\ last.op \in LifecycleOps /\ NonAdmin(last.user)
     /\ last.call # NoCall /\ last.status = 200)
        => (last.old # NoRec /\ HasPrefix(last.old.MountPath, last.user.BasePath))

====
